---- MODULE Spec2Model ----
(***************************************************************************)
(* downdetector: configuration resolution (src/src/config.rs) and the      *)
(* monitoring worker (src/src/worker.rs).                                  *)
(*                                                                         *)
(* Strings are modelled as sequences of tokens (a scheme, a host, "/",     *)
(* a path segment, a blank, ...), so that parsing, prefix tests, splitting *)
(* and formatting are computed on the text and storing a string verbatim   *)
(* is distinguishable from re-serialising it.                              *)
(***************************************************************************)
EXTENDS Integers, Sequences, FiniteSets, TLC

VARIABLES
    file,        \* the deserialized TOML document (fields may be omitted)
    env,         \* the process environment: WEBHOOK_URL, DISCORD_ID
    raw,         \* RawConfig handed to try_from
    loc,         \* locals of try_from: the validated fields so far
    result,      \* Result<Config, Error> of Config::load / try_from
    pc,          \* position of monitor_websites
    token,       \* CancellationToken: TRUE once cancelled
    idx,         \* position of the for loop over config.sites.urls
    outstanding, \* number of HTTP requests issued and not yet answered
    timer,       \* TRUE when the sleep future of the select! is ready
    log,         \* requests and log lines of the current cycle
    exitBy,      \* which break left the loop
    cycleBegun,  \* a Checking phase has begun at least once
    cancelAt,    \* where the worker was when the token was cancelled
    afterCancel  \* requests issued after the token was cancelled

cfgVars == <<file, env, raw, loc, result>>
runVars == <<pc, idx, outstanding, timer, log, exitBy, cycleBegun>>
vars == <<file, env, raw, loc, result, pc, token, idx, outstanding, timer,
          log, exitBy, cycleBegun, cancelAt, afterCancel>>

----------------------------------------------------------------------------
(* Bounds of the model *)
MaxTimeout == 2
MaxUrls == 2
MaxRawUrls == 2
\* the count of checks started after the cancellation saturates here
AfterCap == MaxUrls + 1

(* Program constants *)
DEFAULT_TIMEOUT_SECS == 30
DEFAULT_CHECK_INTERVAL_SECS == 300
INTERVAL_LOW == 1
INTERVAL_HIGH == 86400

\* Option<T>: None is the empty sequence, Some(v) the one-element sequence
None == <<>>
Some(v) == <<v>>
IsSome(o) == Len(o) = 1
Unwrap(o) == o[1]

Ok(v) == [ok |-> TRUE, val |-> v]
Err(e) == [ok |-> FALSE, val |-> e]

----------------------------------------------------------------------------
(* Text *)
Schemes == {"https://", "http://"}
Hosts == {"discord.com", "evil.com", "a.example", "b.example"}
Digits == {"123", "456", "42"}
DigitVal(t) == IF t = "123" THEN 123 ELSE IF t = "456" THEN 456 ELSE 42
\* format!("{id}") of a u64
FormatU64(n) == IF n = 123 THEN "123" ELSE IF n = 456 THEN "456" ELSE "42"
Blanks == {" "}

SchemeName(t) == IF t = "https://" THEN "https" ELSE "http"

\* str::trim().is_empty()
IsBlank(s) == \A k \in 1..Len(s) : s[k] \in Blanks

\* str::starts_with
StartsWith(s, p) == Len(s) >= Len(p) /\ SubSeq(s, 1, Len(p)) = p

\* str::strip_prefix(p).unwrap_or("")
StripPrefixOrEmpty(s, p) ==
    IF StartsWith(s, p) THEN SubSeq(s, Len(p) + 1, Len(s)) ELSE <<>>

\* str::split('/'): always at least one (possibly empty) part
RECURSIVE Split(_)
Split(s) ==
    IF \A k \in 1..Len(s) : s[k] # "/"
    THEN <<s>>
    ELSE LET k == CHOOSE j \in 1..Len(s) :
                      s[j] = "/" /\ \A m \in 1..(j - 1) : s[m] # "/"
         IN <<SubSeq(s, 1, k - 1)>> \o Split(SubSeq(s, k + 1, Len(s)))

\* str::parse::<u64>()
ParseU64(s) ==
    IF Len(s) = 1 /\ s[1] \in Digits THEN Ok(DigitVal(s[1])) ELSE Err(0)

\* Url::parse: an absolute URL is a scheme, a host and a path that is empty
\* or begins with "/"; path() of an empty path is "/".
UrlParse(s) ==
    IF /\ Len(s) >= 2
       /\ s[1] \in Schemes
       /\ s[2] \in Hosts
       /\ (Len(s) >= 3 => s[3] = "/")
    THEN Ok([scheme |-> SchemeName(s[1]),
             host   |-> s[2],
             path   |-> IF Len(s) = 2 THEN <<"/">> ELSE SubSeq(s, 3, Len(s))])
    ELSE Err([scheme |-> "", host |-> "", path |-> <<>>])

WEBHOOK_PREFIX == <<"/", "api", "/", "webhooks", "/">>

----------------------------------------------------------------------------
(* Error values: Error::Config(String) and the errors of Config::load *)
ConfigErr(msg) == [kind |-> "Config", msg |-> msg]
IoErr == [kind |-> "Io", msg |-> <<>>]

E_TIMEOUT == ConfigErr(<<"timeout_secs must be > 0">>)
\* variant: the interval failure carries the timeout failure's message
E_INTERVAL_SameMessage == ConfigErr(<<"timeout_secs must be > 0">>)
E_INTERVAL == ConfigErr(<<"check_interval_secs must be > 0 and < 86400">>)
E_WEBHOOK_FORMAT == ConfigErr(<<"Invalid webhook URL format">>)
E_WEBHOOK_DISCORD ==
    ConfigErr(<<"Webhook URL must be a valid Discord webhook starting with https://discord.com/api/webhooks/">>)
E_WEBHOOK_PARTS == ConfigErr(<<"Webhook URL must contain both webhook ID and token">>)
E_WEBHOOK_ID(id) ==
    ConfigErr(<<"Invalid webhook ID '">> \o id \o <<"': must be a valid Discord snowflake (numeric ID)">>)
E_URL(url) == ConfigErr(<<"Invalid URL: ">> \o url)

----------------------------------------------------------------------------
(* Config::validate_* *)
\* variant: the zero test is missing
validate_timeout_NoCheck(timeout_secs) == Ok(timeout_secs)

validate_timeout(timeout_secs) ==
    IF timeout_secs = 0 THEN Err(E_TIMEOUT) ELSE Ok(timeout_secs)

\* variant: the upper end of the range is inclusive (1..=86400)
validate_check_interval_Inclusive(check_interval_secs) ==
    IF ~(check_interval_secs >= INTERVAL_LOW /\ check_interval_secs <= INTERVAL_HIGH)
    THEN Err(E_INTERVAL)
    ELSE Ok(check_interval_secs)

validate_check_interval(check_interval_secs) ==
    IF ~(check_interval_secs >= INTERVAL_LOW /\ check_interval_secs < INTERVAL_HIGH)
    THEN Err(E_INTERVAL)
    ELSE Ok(check_interval_secs)

\* dotenvy::var(name).ok()
EnvVar(e, name) == e[name]

\* variant: the file value is preferred to the environment value
OptOr_FileFirst(a, b) == IF IsSome(b) THEN b ELSE a

\* Option::or
OptOr(a, b) == IF IsSome(a) THEN a ELSE b

\* variant: the host of the webhook URL is not compared with discord.com
validate_webhook_url_AnyHost(e, raw_url) ==
    LET chosen == OptOr(EnvVar(e, "WEBHOOK_URL"), raw_url) IN
    IF ~(IsSome(chosen) /\ ~IsBlank(Unwrap(chosen)))
    THEN Ok(None)
    ELSE
    LET webhook_url == Unwrap(chosen)
        parsed == UrlParse(webhook_url)
    IN  IF ~parsed.ok THEN Err(E_WEBHOOK_FORMAT)
        ELSE IF \/ parsed.val.scheme # "https"
                \/ ~StartsWith(parsed.val.path, WEBHOOK_PREFIX)
        THEN Err(E_WEBHOOK_DISCORD)
        ELSE
        LET path_parts == Split(StripPrefixOrEmpty(parsed.val.path, WEBHOOK_PREFIX))
        IN  IF \/ Len(path_parts) < 2
               \/ path_parts[1] = <<>>
               \/ path_parts[2] = <<>>
            THEN Err(E_WEBHOOK_PARTS)
            ELSE IF ~ParseU64(path_parts[1]).ok
            THEN Err(E_WEBHOOK_ID(path_parts[1]))
            ELSE Ok(Some(webhook_url))

\* variant: anything but exactly two path parts after the prefix is rejected
validate_webhook_url_ExactlyTwo(e, raw_url) ==
    LET chosen == OptOr(EnvVar(e, "WEBHOOK_URL"), raw_url) IN
    IF ~(IsSome(chosen) /\ ~IsBlank(Unwrap(chosen)))
    THEN Ok(None)
    ELSE
    LET webhook_url == Unwrap(chosen)
        parsed == UrlParse(webhook_url)
    IN  IF ~parsed.ok THEN Err(E_WEBHOOK_FORMAT)
        ELSE IF \/ parsed.val.scheme # "https"
                \/ parsed.val.host # "discord.com"
                \/ ~StartsWith(parsed.val.path, WEBHOOK_PREFIX)
        THEN Err(E_WEBHOOK_DISCORD)
        ELSE
        LET path_parts == Split(StripPrefixOrEmpty(parsed.val.path, WEBHOOK_PREFIX))
        IN  IF \/ Len(path_parts) # 2
               \/ path_parts[1] = <<>>
               \/ path_parts[2] = <<>>
            THEN Err(E_WEBHOOK_PARTS)
            ELSE IF ~ParseU64(path_parts[1]).ok
            THEN Err(E_WEBHOOK_ID(path_parts[1]))
            ELSE Ok(Some(webhook_url))

validate_webhook_url(e, raw_url) ==
    LET chosen == OptOr(EnvVar(e, "WEBHOOK_URL"), raw_url) IN
    IF ~(IsSome(chosen) /\ ~IsBlank(Unwrap(chosen)))
    THEN Ok(None)
    ELSE
    LET webhook_url == Unwrap(chosen)
        parsed == UrlParse(webhook_url)
    IN  IF ~parsed.ok THEN Err(E_WEBHOOK_FORMAT)
        ELSE IF \/ parsed.val.scheme # "https"
                \/ parsed.val.host # "discord.com"
                \/ ~StartsWith(parsed.val.path, WEBHOOK_PREFIX)
        THEN Err(E_WEBHOOK_DISCORD)
        ELSE
        LET path_parts == Split(StripPrefixOrEmpty(parsed.val.path, WEBHOOK_PREFIX))
        IN  IF \/ Len(path_parts) < 2
               \/ path_parts[1] = <<>>
               \/ path_parts[2] = <<>>
            THEN Err(E_WEBHOOK_PARTS)
            ELSE IF ~ParseU64(path_parts[1]).ok
            THEN Err(E_WEBHOOK_ID(path_parts[1]))
            ELSE Ok(Some(webhook_url))

\* variant: an environment value that does not parse hides the file value
validate_discord_id_EnvHides(e, raw_id) ==
    LET v == EnvVar(e, "DISCORD_ID") IN
    IF IsSome(v)
    THEN IF ParseU64(Unwrap(v)).ok THEN Some(ParseU64(Unwrap(v)).val) ELSE None
    ELSE raw_id

validate_discord_id(e, raw_id) ==
    LET v == EnvVar(e, "DISCORD_ID")
        parsed == IF IsSome(v) /\ ParseU64(Unwrap(v)).ok
                  THEN Some(ParseU64(Unwrap(v)).val)
                  ELSE None
    IN  OptOr(parsed, raw_id)

\* variant: the error names the last invalid entry
RECURSIVE validate_urls_LastInvalid(_)
validate_urls_LastInvalid(urls) ==
    IF urls = <<>> THEN Ok(<<>>)
    ELSE LET rest == validate_urls_LastInvalid(Tail(urls)) IN
         IF ~rest.ok THEN rest
         ELSE IF ~UrlParse(Head(urls)).ok THEN Err(E_URL(Head(urls)))
         ELSE rest

RECURSIVE validate_urls(_)
validate_urls(urls) ==
    IF urls = <<>> THEN Ok(<<>>)
    ELSE IF ~UrlParse(Head(urls)).ok THEN Err(E_URL(Head(urls)))
    ELSE validate_urls(Tail(urls))

\* variant: an omitted number deserializes to zero
FromToml_ZeroDefaults(f) ==
    [timeout_secs        |-> IF IsSome(f.timeout_secs) THEN Unwrap(f.timeout_secs) ELSE 0,
     check_interval_secs |-> IF IsSome(f.check_interval_secs)
                             THEN Unwrap(f.check_interval_secs) ELSE 0,
     webhook_url         |-> f.webhook_url,
     discord_id          |-> f.discord_id,
     urls                |-> IF IsSome(f.urls) THEN Unwrap(f.urls) ELSE <<>>]

\* serde defaults of RawConfigOptions / SiteList
FromToml(f) ==
    [timeout_secs        |-> IF IsSome(f.timeout_secs) THEN Unwrap(f.timeout_secs)
                             ELSE DEFAULT_TIMEOUT_SECS,
     check_interval_secs |-> IF IsSome(f.check_interval_secs)
                             THEN Unwrap(f.check_interval_secs)
                             ELSE DEFAULT_CHECK_INTERVAL_SECS,
     webhook_url         |-> f.webhook_url,
     discord_id          |-> f.discord_id,
     urls                |-> IF IsSome(f.urls) THEN Unwrap(f.urls) ELSE <<>>]

----------------------------------------------------------------------------
(* Inputs *)
A_URL == <<"https://", "a.example">>
B_URL == <<"http://", "b.example", "/", "abc">>
BAD_URL == <<"invalid-url">>
BAD2_URL == <<"www.example.com">>

Hook(id, rest) == <<"https://", "discord.com", "/", "api", "/", "webhooks", "/", id>> \o rest
HOOK_OK == Hook("123", <<"/", "token">>)
HOOK_ENV == Hook("456", <<"/", "token">>)

WebhookStrings ==
    { HOOK_OK,
      <<"https://", "evil.com", "/", "api", "/", "webhooks", "/", "123", "/", "token">>,
      <<"http://", "discord.com", "/", "api", "/", "webhooks", "/", "123", "/", "token">>,
      <<"https://", "discord.com", "/", "api", "/", "123", "/", "token">>,
      Hook("abc", <<"/", "token">>),
      Hook("123", <<>>),
      Hook("123", <<"/">>),
      Hook("123", <<"/", "token", "/", "extra">>),
      <<"https://", "discord.com">>,
      BAD_URL,
      <<>>,
      <<" ">> }

EnvWebhookStrings == { HOOK_ENV, BAD_URL, <<>>, <<" ">> }
EnvDiscordStrings == { <<"456">>, <<"abc">>, <<>> }

OptionOf(S) == {None} \cup {Some(v) : v \in S}

RECURSIVE SeqsUpTo(_, _)
SeqsUpTo(S, n) ==
    IF n = 0 THEN {<<>>}
    ELSE LET shorter == SeqsUpTo(S, n - 1)
         IN shorter \cup {Append(q, v) : q \in {r \in shorter : Len(r) = n - 1}, v \in S}

IntervalSamples ==
    {0, INTERVAL_LOW, INTERVAL_LOW + 1, INTERVAL_HIGH - 1, INTERVAL_HIGH, INTERVAL_HIGH + 1}

\* documents and environments explored for the resolution pipeline
ResolveFiles ==
    [timeout_secs        : OptionOf(0..MaxTimeout),
     check_interval_secs : OptionOf(IntervalSamples),
     webhook_url         : OptionOf(WebhookStrings),
     discord_id          : OptionOf({42}),
     urls                : OptionOf(SeqsUpTo({A_URL, B_URL, BAD_URL, BAD2_URL}, MaxRawUrls))]
ResolveEnvs ==
    [WEBHOOK_URL : OptionOf(EnvWebhookStrings), DISCORD_ID : OptionOf(EnvDiscordStrings)]

\* documents and environments explored for the running worker
WorkerFiles ==
    [timeout_secs        : {None, Some(0)},
     check_interval_secs : {None},
     webhook_url         : {None, Some(HOOK_OK)},
     discord_id          : {None, Some(42)},
     urls                : {Some(q) : q \in SeqsUpTo({A_URL, B_URL}, MaxUrls)}]
WorkerEnvs == [WEBHOOK_URL : {None}, DISCORD_ID : {None}]

NoLoc == [timeout_secs |-> None, check_interval_secs |-> None,
          webhook_url |-> None, discord_id |-> None]

InitRun ==
    /\ raw = None
    /\ loc = NoLoc
    /\ result = None
    /\ pc = "load"
    /\ token = FALSE
    /\ idx = 0
    /\ outstanding = 0
    /\ timer = FALSE
    /\ log = <<>>
    /\ exitBy = "none"
    /\ cycleBegun = FALSE
    /\ cancelAt = [pc |-> "none", left |-> 0]
    /\ afterCancel = 0

Init == file \in WorkerFiles /\ env \in WorkerEnvs /\ InitRun
InitResolve == file \in ResolveFiles /\ env \in ResolveEnvs /\ InitRun

----------------------------------------------------------------------------
(* Config::load and TryFrom<RawConfig> for Config, one statement per step *)
tokVars == <<token, cancelAt, afterCancel>>
loopVars == <<idx, outstanding, timer, log, exitBy, cycleBegun>>

Fail(e) == result' = Some(Err(e)) /\ pc' = "expect"

\* find_config, fs::read_to_string, toml::from_str
Load ==
    /\ pc = "load"
    /\ \/ /\ raw' = Some(FromToml(file))
          /\ pc' = "validate_timeout"
          /\ UNCHANGED result
       \/ /\ Fail(IoErr)
          /\ UNCHANGED raw
    /\ UNCHANGED <<file, env, loc, tokVars, loopVars>>

\* variant: a failed timeout validation does not return; the later steps run
ValidateTimeout_NoReturn ==
    /\ pc = "validate_timeout"
    /\ LET r == validate_timeout(Unwrap(raw).timeout_secs) IN
       loc' = [loc EXCEPT !.timeout_secs =
                   Some(IF r.ok THEN r.val ELSE Unwrap(raw).timeout_secs)]
    /\ pc' = "validate_check_interval"
    /\ UNCHANGED <<file, env, raw, result, tokVars, loopVars>>

ValidateTimeout ==
    /\ pc = "validate_timeout"
    /\ LET r == validate_timeout(Unwrap(raw).timeout_secs) IN
       IF r.ok
       THEN /\ loc' = [loc EXCEPT !.timeout_secs = Some(r.val)]
            /\ pc' = "validate_check_interval"
            /\ UNCHANGED result
       ELSE Fail(r.val) /\ UNCHANGED loc
    /\ UNCHANGED <<file, env, raw, tokVars, loopVars>>

\* variant: an interval out of range is replaced by the default
ValidateCheckInterval_Fallback ==
    /\ pc = "validate_check_interval"
    /\ LET r == validate_check_interval(Unwrap(raw).check_interval_secs) IN
       loc' = [loc EXCEPT !.check_interval_secs =
                   Some(IF r.ok THEN r.val ELSE DEFAULT_CHECK_INTERVAL_SECS)]
    /\ pc' = "validate_webhook_url"
    /\ UNCHANGED <<file, env, raw, result, tokVars, loopVars>>

ValidateCheckInterval ==
    /\ pc = "validate_check_interval"
    /\ LET r == validate_check_interval(Unwrap(raw).check_interval_secs) IN
       IF r.ok
       THEN /\ loc' = [loc EXCEPT !.check_interval_secs = Some(r.val)]
            /\ pc' = "validate_webhook_url"
            /\ UNCHANGED result
       ELSE Fail(r.val) /\ UNCHANGED loc
    /\ UNCHANGED <<file, env, raw, tokVars, loopVars>>

ValidateWebhookUrl ==
    /\ pc = "validate_webhook_url"
    /\ LET r == validate_webhook_url(env, Unwrap(raw).webhook_url) IN
       IF r.ok
       THEN /\ loc' = [loc EXCEPT !.webhook_url = r.val]
            /\ pc' = "validate_discord_id"
            /\ UNCHANGED result
       ELSE Fail(r.val) /\ UNCHANGED loc
    /\ UNCHANGED <<file, env, raw, tokVars, loopVars>>

ValidateDiscordId ==
    /\ pc = "validate_discord_id"
    /\ loc' = [loc EXCEPT !.discord_id = validate_discord_id(env, Unwrap(raw).discord_id)]
    /\ pc' = "validate_urls"
    /\ UNCHANGED <<file, env, raw, result, tokVars, loopVars>>

\* variant: the list is deduplicated on the way into the Config
RECURSIVE Dedup(_)
Dedup(q) ==
    IF q = <<>> THEN <<>>
    ELSE LET init == Dedup(SubSeq(q, 1, Len(q) - 1)) IN
         IF \E k \in 1..Len(init) : init[k] = q[Len(q)] THEN init
         ELSE Append(init, q[Len(q)])

ValidateUrls_Dedup ==
    /\ pc = "validate_urls"
    /\ LET r == validate_urls(Unwrap(raw).urls) IN
       IF r.ok
       THEN /\ result' = Some(Ok([timeout_secs        |-> Unwrap(loc.timeout_secs),
                                  check_interval_secs |-> Unwrap(loc.check_interval_secs),
                                  webhook_url         |-> loc.webhook_url,
                                  discord_id          |-> loc.discord_id,
                                  urls                |-> Dedup(Unwrap(raw).urls)]))
            /\ pc' = "expect"
       ELSE Fail(r.val)
    /\ UNCHANGED <<file, env, raw, loc, tokVars, loopVars>>

\* validate_urls and, when it passes, Ok(Config { .. })
ValidateUrls ==
    /\ pc = "validate_urls"
    /\ LET r == validate_urls(Unwrap(raw).urls) IN
       IF r.ok
       THEN /\ result' = Some(Ok([timeout_secs        |-> Unwrap(loc.timeout_secs),
                                  check_interval_secs |-> Unwrap(loc.check_interval_secs),
                                  webhook_url         |-> loc.webhook_url,
                                  discord_id          |-> loc.discord_id,
                                  urls                |-> Unwrap(raw).urls]))
            /\ pc' = "expect"
       ELSE Fail(r.val)
    /\ UNCHANGED <<file, env, raw, loc, tokVars, loopVars>>

NextResolve ==
    \/ Load
    \/ ValidateTimeout
    \/ ValidateCheckInterval
    \/ ValidateWebhookUrl
    \/ ValidateDiscordId
    \/ ValidateUrls

SpecResolve == InitResolve /\ [][NextResolve]_vars

----------------------------------------------------------------------------
(* monitor_websites *)
config == Unwrap(result).val
urls == config.urls

Responses == {"2xx", "non2xx", "transport_err"}

Ev(op, i, target, data) == [op |-> op, i |-> i, target |-> target, data |-> data]

\* variant: the alert text does not name the URL
AlertMessage_NoUrl(url) == <<"Alert: a site is DOWN!">>

\* format!("Alert: {url} is DOWN!")
AlertMessage(url) == <<"Alert: ">> \o url \o <<" is DOWN!">>

\* the content built by send_discord_notification
Content(message, discord_id) ==
    LET tag == IF IsSome(discord_id)
               THEN <<"<@", FormatU64(Unwrap(discord_id)), "> ">>
               ELSE <<>>
    IN tag \o message

\* variant: the outcome of Config::load is not inspected
Expect_IgnoresError ==
    /\ pc = "expect"
    /\ pc' = "loop_top"
    /\ UNCHANGED <<cfgVars, tokVars, loopVars>>

\* Config::load().expect("Failed to load configuration")
Expect ==
    /\ pc = "expect"
    /\ pc' = IF Unwrap(result).ok THEN "loop_top" ELSE "panicked"
    /\ UNCHANGED <<cfgVars, tokVars, loopVars>>

\* variant: the for loop is left as soon as the token is cancelled
Advance_StopsOnCancel(i) ==
    IF i < Len(urls) /\ ~token
    THEN pc' = "check" /\ idx' = i + 1 /\ UNCHANGED timer
    ELSE pc' = "sleeping" /\ idx' = i /\ timer' = FALSE

\* the body of the for loop is over for entry i: next entry, or the select!
Advance(i) ==
    IF i < Len(urls)
    THEN pc' = "check" /\ idx' = i + 1 /\ UNCHANGED timer
    ELSE pc' = "sleeping" /\ idx' = i /\ timer' = FALSE

\* variant: the token is not sampled at the top of the loop
CycleStart_NoSample ==
    /\ pc = "loop_top"
    /\ cycleBegun' = TRUE
    /\ log' = <<>>
    /\ IF 0 < Len(urls)
       THEN pc' = "check" /\ idx' = 1 /\ UNCHANGED timer
       ELSE pc' = "sleeping" /\ idx' = 0 /\ timer' = FALSE
    /\ UNCHANGED <<cfgVars, tokVars, outstanding, exitBy>>

\* top of the loop: if token.is_cancelled() { break; }
CycleStart ==
    /\ pc = "loop_top"
    /\ IF token
       THEN /\ pc' = "stopped"
            /\ exitBy' = "cycle_start"
            /\ UNCHANGED <<idx, timer, log, cycleBegun>>
       ELSE /\ cycleBegun' = TRUE
            /\ log' = <<>>
            /\ Advance(0)
            /\ UNCHANGED exitBy
    /\ UNCHANGED <<cfgVars, tokVars, outstanding>>

\* variant: the GET is sent but not awaited before the next entry
StartCheck_NoAwait ==
    /\ pc = "check"
    /\ afterCancel' = IF token /\ afterCancel < AfterCap THEN afterCancel + 1 ELSE afterCancel
    /\ log' = Append(log, Ev("get", idx, urls[idx], <<>>))
    /\ outstanding' = outstanding + 1
    /\ IF idx < Len(urls)
       THEN pc' = "check" /\ idx' = idx + 1 /\ UNCHANGED timer
       ELSE pc' = "sleeping" /\ UNCHANGED idx /\ timer' = FALSE
    /\ UNCHANGED <<cfgVars, token, cancelAt, exitBy, cycleBegun>>

\* monitor_website_status -> is_url_up: build the client, send the GET
StartCheck ==
    /\ pc = "check"
    /\ afterCancel' = IF token /\ afterCancel < AfterCap THEN afterCancel + 1 ELSE afterCancel
    /\ \/ /\ log' = Append(log, Ev("get", idx, urls[idx], <<>>))
          /\ outstanding' = outstanding + 1
          /\ pc' = "check_wait"
          /\ UNCHANGED <<idx, timer>>
       \/ \* Client::builder().build()? fails; logged by the loop
          /\ log' = Append(log, Ev("build_err", idx, urls[idx], <<>>))
          /\ Advance(idx)
          /\ UNCHANGED outstanding
    /\ UNCHANGED <<cfgVars, token, cancelAt, exitBy, cycleBegun>>

\* is_url_up
\* info!("{url}: UP") / warn!("{url}: DOWN")
StatusLine(up) == IF up THEN "UP" ELSE "DOWN"

\* variant: a transport failure counts as up (unwrap_or(true))
IsUp_UnwrapOrTrue(resp) == resp # "non2xx"

IsUp(resp) == resp = "2xx"

\* variant: the notification is sent only when a discord id is configured
CheckDone_NeedsDiscordId ==
    /\ pc = "check_wait"
    /\ \E resp \in Responses :
         LET got == Append(log, Ev("got", idx, urls[idx], <<resp, StatusLine(IsUp(resp))>>)) IN
         IF ~IsUp(resp) /\ IsSome(config.webhook_url) /\ IsSome(config.discord_id)
         THEN /\ log' = Append(got, Ev("post", idx, Unwrap(config.webhook_url),
                                       Content(AlertMessage(urls[idx]), config.discord_id)))
              /\ outstanding' = outstanding
              /\ pc' = "notify_wait"
              /\ UNCHANGED <<idx, timer>>
         ELSE /\ log' = got
              /\ outstanding' = outstanding - 1
              /\ Advance(idx)
    /\ UNCHANGED <<cfgVars, tokVars, exitBy, cycleBegun>>

\* the GET is answered: UP, or DOWN and the notification is posted
CheckDone ==
    /\ pc = "check_wait"
    /\ \E resp \in Responses :
         LET got == Append(log, Ev("got", idx, urls[idx], <<resp, StatusLine(IsUp(resp))>>)) IN
         IF IsUp(resp)
         THEN /\ log' = got
              /\ outstanding' = outstanding - 1
              /\ Advance(idx)
         ELSE IF IsSome(config.webhook_url)
         THEN /\ log' = Append(got, Ev("post", idx, Unwrap(config.webhook_url),
                                       Content(AlertMessage(urls[idx]), config.discord_id)))
              /\ outstanding' = outstanding
              /\ pc' = "notify_wait"
              /\ UNCHANGED <<idx, timer>>
         ELSE /\ log' = got
              /\ outstanding' = outstanding - 1
              /\ Advance(idx)
    /\ UNCHANGED <<cfgVars, tokVars, exitBy, cycleBegun>>

\* send_discord_notification: client.post(..).send().await?
NotifyResult(resp) == IF resp = "transport_err" THEN Err("HttpRequest") ELSE Ok("unit")

\* variant: a failed notification leaves the monitoring loop
NotifyDone_ErrEscapes ==
    /\ pc = "notify_wait"
    /\ \E resp \in Responses :
         /\ log' = Append(log, Ev(IF NotifyResult(resp).ok THEN "posted" ELSE "post_err",
                                  idx, Unwrap(config.webhook_url), <<resp>>))
         /\ outstanding' = outstanding - 1
         /\ IF NotifyResult(resp).ok
            THEN IF idx < Len(urls)
                 THEN pc' = "check" /\ idx' = idx + 1 /\ UNCHANGED timer
                 ELSE pc' = "sleeping" /\ UNCHANGED idx /\ timer' = FALSE
            ELSE pc' = "stopped" /\ UNCHANGED <<idx, timer>>
    /\ UNCHANGED <<cfgVars, tokVars, exitBy, cycleBegun>>

\* variant: a failed notification ends the for loop of the cycle
NotifyDone_ErrAborts ==
    /\ pc = "notify_wait"
    /\ \E resp \in Responses :
         /\ log' = Append(log, Ev(IF NotifyResult(resp).ok THEN "posted" ELSE "post_err",
                                  idx, Unwrap(config.webhook_url), <<resp>>))
         /\ outstanding' = outstanding - 1
         /\ IF NotifyResult(resp).ok /\ idx < Len(urls)
            THEN pc' = "check" /\ idx' = idx + 1 /\ UNCHANGED timer
            ELSE pc' = "sleeping" /\ UNCHANGED idx /\ timer' = FALSE
    /\ UNCHANGED <<cfgVars, tokVars, exitBy, cycleBegun>>

NotifyDone ==
    /\ pc = "notify_wait"
    /\ \E resp \in Responses :
         /\ log' = Append(log, Ev(IF NotifyResult(resp).ok THEN "posted" ELSE "post_err",
                                  idx, Unwrap(config.webhook_url), <<resp>>))
         /\ outstanding' = outstanding - 1
         /\ Advance(idx)
    /\ UNCHANGED <<cfgVars, tokVars, exitBy, cycleBegun>>

\* sleep(check_interval_secs) becomes ready
TimerElapse ==
    /\ pc = "sleeping"
    /\ ~timer
    /\ timer' = TRUE
    /\ UNCHANGED <<cfgVars, tokVars, pc, idx, outstanding, log, exitBy, cycleBegun>>

\* variant: a plain sleep, the cancellation is not raced against the timer
SleepSelect_TimerOnly ==
    /\ pc = "sleeping"
    /\ timer
    /\ pc' = "loop_top"
    /\ UNCHANGED <<cfgVars, tokVars, idx, outstanding, timer, log, exitBy, cycleBegun>>

\* select!: whichever ready branch is polled first wins
\* variant: taking the cancellation branch consumes the cancellation
SleepSelect_ConsumesCancel ==
    /\ pc = "sleeping"
    /\ \/ /\ timer
          /\ pc' = "loop_top"
          /\ UNCHANGED <<exitBy, token>>
       \/ /\ token
          /\ pc' = "stopped"
          /\ exitBy' = "sleep"
          /\ token' = FALSE
    /\ UNCHANGED <<cfgVars, cancelAt, afterCancel, idx, outstanding, timer, log, cycleBegun>>

SleepSelect ==
    /\ pc = "sleeping"
    /\ \/ /\ timer
          /\ pc' = "loop_top"
          /\ UNCHANGED exitBy
       \/ /\ token
          /\ pc' = "stopped"
          /\ exitBy' = "sleep"
    /\ UNCHANGED <<cfgVars, tokVars, idx, outstanding, timer, log, cycleBegun>>

\* entries of the current cycle whose check has not been started yet
LeftAt(p, i) ==
    IF p = "check" THEN Len(urls) - i + 1
    ELSE IF p \in {"check_wait", "notify_wait"} THEN Len(urls) - i
    ELSE 0

\* CancellationToken::cancel(), by the owner of the token
Cancel ==
    /\ ~token
    /\ token' = TRUE
    /\ cancelAt' = [pc |-> pc, left |-> LeftAt(pc, idx)]
    /\ UNCHANGED <<cfgVars, runVars, afterCancel>>

Worker ==
    \/ Load
    \/ ValidateTimeout
    \/ ValidateCheckInterval
    \/ ValidateWebhookUrl
    \/ ValidateDiscordId
    \/ ValidateUrls
    \/ Expect
    \/ CycleStart
    \/ StartCheck
    \/ CheckDone
    \/ NotifyDone
    \/ SleepSelect

Next == Worker \/ TimerElapse \/ Cancel

Spec == Init /\ [][Next]_vars

\* the runtime keeps polling the worker task; the timer and the owner of the
\* token are under no obligation
LiveSpec == Spec /\ WF_vars(Worker)

----------------------------------------------------------------------------
(* Vocabulary of the properties *)
LoopPcs == {"loop_top", "check", "check_wait", "notify_wait", "sleeping", "stopped"}
CheckingPcs == {"check", "check_wait", "notify_wait"}

\* the Checking phase of the current cycle is over
CycleOver == pc = "sleeping" \/ (pc \in {"loop_top", "stopped"} /\ cycleBegun)

IsAttempt(e) == e.op \in {"get", "build_err"}
Attempts == SelectSeq(log, IsAttempt)
AttemptsOf(k) == {j \in 1..Len(log) : IsAttempt(log[j]) /\ log[j].i = k}
PostsOf(k) == {j \in 1..Len(log) : log[j].op = "post" /\ log[j].i = k}
IsDown(e) == e.op = "got" /\ e.data[1] # "2xx"
IsUpEv(e) == e.op = "got" /\ e.data[1] = "2xx"

Contains(text, s) ==
    \E k \in 1..(Len(text) - Len(s) + 1) : SubSeq(text, k, k + Len(s) - 1) = s

----------------------------------------------------------------------------
\* C1: when the token is already cancelled at the sample at the top of a
\* cycle (the first one included), the worker goes to Stopped, and from then
\* on it issues no check and no notification: nothing of the worker changes.
C1_CancelledAtCycleStart ==
    /\ [](exitBy = "cycle_start" => pc = "stopped" /\ outstanding = 0)
    /\ [][ /\ (pc = "loop_top" /\ token) =>
                (pc' = "stopped" /\ UNCHANGED <<log, outstanding, afterCancel>>)
           /\ pc = "stopped" => UNCHANGED <<runVars, afterCancel>> ]_vars

C1_Witness ==
    pc = "stopped" /\ exitBy = "cycle_start" /\ ~cycleBegun /\ log = <<>>

\* C2: a cancellation that fires during the inter-cycle sleep takes the
\* worker from Sleeping to Stopped with no Checking phase, no check and no
\* notification in between, and without the timer having to elapse.
C2_CancelDuringSleep ==
    /\ [](cancelAt.pc = "sleeping" =>
            /\ afterCancel = 0
            /\ pc \in {"sleeping", "loop_top", "stopped"}
            /\ outstanding = 0)
    /\ ((pc = "sleeping" /\ token) ~> (pc = "stopped"))

C2_Witness ==
    pc = "stopped" /\ exitBy = "sleep" /\ cancelAt.pc = "sleeping" /\ ~timer

\* C3: Stopped is terminal and entered only with the token cancelled; while
\* the token is not cancelled the worker stays in the loop, whatever the
\* checks and notifications return, and leaves the sleep only for the top of
\* the next cycle.
C3_StoppedOnlyByCancel ==
    /\ [](pc = "stopped" => token /\ exitBy # "none")
    /\ [][ /\ pc = "stopped" => pc' = "stopped"
           /\ (pc \in LoopPcs /\ ~token') => pc' \in (LoopPcs \ {"stopped"})
           /\ (pc = "sleeping" /\ ~token' /\ pc' # pc) => pc' = "loop_top"
           /\ (pc = "loop_top" /\ ~token' /\ pc' # pc) => pc' \in {"check", "sleeping"} ]_vars

C3_Witness ==
    /\ pc = "loop_top" /\ ~token /\ cycleBegun
    /\ \E j \in 1..Len(log) : log[j].op = "build_err"
    /\ \E j \in 1..Len(log) : log[j].op = "post_err"

\* C4: in a Checking phase the entries of config.sites.urls are checked in
\* list order, each occurrence once, one request outstanding at most: a
\* request is answered before anything else is issued.
C4_SequentialInOrder ==
    pc \in LoopPcs =>
        /\ Len(Attempts) <= Len(urls)
        /\ \A k \in 1..Len(Attempts) :
              Attempts[k].i = k /\ Attempts[k].target = urls[k]
        /\ CycleOver => Len(Attempts) = Len(urls)
        /\ pc \in CheckingPcs => Len(Attempts) = IF pc = "check" THEN idx - 1 ELSE idx
        /\ outstanding <= 1
        /\ outstanding = IF log # <<>> /\ log[Len(log)].op \in {"get", "post"} THEN 1 ELSE 0
        /\ \A j \in 1..(Len(log) - 1) :
              /\ log[j].op = "get" => (log[j + 1].op = "got" /\ log[j + 1].i = log[j].i)
              /\ log[j].op = "post" =>
                    (log[j + 1].op \in {"posted", "post_err"} /\ log[j + 1].i = log[j].i)

C4_Witness ==
    /\ pc = "sleeping"
    /\ Len(urls) = 2 /\ urls[1] = urls[2]
    /\ Len(Attempts) = 2
    /\ PostsOf(1) # {}

\* C5 as stated: every DOWN result is followed at once by exactly one
\* notification for that entry, carrying its URL; an UP result by none.
C5_DownAlwaysNotifies ==
    pc \in LoopPcs =>
        \A j \in 1..Len(log) :
            /\ IsDown(log[j]) =>
                  /\ Cardinality(PostsOf(log[j].i)) = 1
                  /\ j < Len(log)
                  /\ log[j + 1].op = "post"
                  /\ log[j + 1].i = log[j].i
                  /\ Contains(log[j + 1].data, urls[log[j].i])
            /\ IsUpEv(log[j]) => PostsOf(log[j].i) = {}

\* C5, amended: with a webhook configured, every DOWN result is followed at
\* once (before the next entry is checked) by exactly one notification to
\* that webhook carrying the entry's URL; with no webhook configured a DOWN
\* result triggers none; an UP result triggers none.
C5_DownNotifiesIfWebhook ==
    pc \in LoopPcs =>
        /\ \A j \in 1..Len(log) :
            /\ (IsDown(log[j]) /\ IsSome(config.webhook_url)) =>
                  /\ Cardinality(PostsOf(log[j].i)) = 1
                  /\ j < Len(log)
                  /\ log[j + 1].op = "post"
                  /\ log[j + 1].i = log[j].i
                  /\ log[j + 1].target = Unwrap(config.webhook_url)
                  /\ Contains(log[j + 1].data, urls[log[j].i])
            /\ IsUpEv(log[j]) => PostsOf(log[j].i) = {}
            /\ log[j].op = "post" => (j > 1 /\ IsDown(log[j - 1]) /\ log[j - 1].i = log[j].i)
        /\ ~IsSome(config.webhook_url) => \A j \in 1..Len(log) : log[j].op # "post"

C5_Witness ==
    /\ pc = "sleeping"
    /\ Len(urls) = 2
    /\ \E j \in 1..Len(log) : IsDown(log[j]) /\ log[j].i = 1
    /\ \E j \in 1..Len(log) : IsUpEv(log[j]) /\ log[j].i = 2
    /\ Cardinality(PostsOf(1)) = 1
    /\ IsSome(config.discord_id)

\* C6: whatever happens to one entry (UP, DOWN, a failed notification, a
\* check error), the loop moves on to the next entry, or to the sleep after
\* the last one, so that when the Checking phase is over every entry has
\* been checked exactly once.
C6_FailureIsolation ==
    /\ []((pc \in LoopPcs /\ CycleOver) =>
            \A k \in 1..Len(urls) : Cardinality(AttemptsOf(k)) = 1)
    /\ [][ (pc \in CheckingPcs /\ (pc' \notin CheckingPcs \/ idx' # idx)) =>
              IF idx < Len(urls)
              THEN pc' = "check" /\ idx' = idx + 1
              ELSE pc' = "sleeping" ]_vars

C6_Witness ==
    /\ pc = "sleeping"
    /\ Len(urls) = 2
    /\ \E j \in 1..Len(log) : log[j].i = 1 /\ log[j].op \in {"build_err", "post_err"}
    /\ Cardinality(AttemptsOf(2)) = 1

\* C7: a cancellation during the Checking phase does not cut the cycle
\* short: the entries not yet checked are all still checked; after that the
\* worker stops, and no cycle begins once the token is cancelled.
C7_CancelDuringChecking ==
    /\ [](cancelAt.pc \in CheckingPcs =>
            /\ afterCancel <= cancelAt.left
            /\ CycleOver =>
                  /\ afterCancel = cancelAt.left
                  /\ Len(Attempts) = Len(urls))
    /\ [](exitBy # "none" => pc = "stopped")
    /\ [][ (pc = "loop_top" /\ token) => (pc' \notin CheckingPcs /\ log' = log) ]_vars

C7_Witness ==
    /\ pc = "stopped"
    /\ cancelAt.pc = "check_wait"
    /\ cancelAt.left >= 1
    /\ afterCancel = cancelAt.left

\* C8: with the worker polled fairly and every request answered, a
\* cancelled token leads to Stopped whichever branch the select! takes, and
\* no more checks are started after the cancellation than entries of the
\* current cycle were still unchecked.
C8_CancelLeadsToStopped ==
    /\ ((token /\ pc \in LoopPcs) ~> (pc = "stopped"))
    /\ [](afterCancel <= cancelAt.left)

C8_Witness ==
    /\ pc = "stopped"
    /\ exitBy = "cycle_start"
    /\ cancelAt.pc = "sleeping"
    /\ timer

----------------------------------------------------------------------------
PastStep(steps) == IsSome(raw) /\ pc \notin ({"load"} \cup steps)
IsConfigErr(r) == IsSome(r) /\ ~Unwrap(r).ok /\ Unwrap(r).val.kind = "Config"

\* C9: resolution fails with a config error when timeout_secs = 0; for
\* every timeout_secs >= 1 the timeout step succeeds and yields the value
\* unchanged.
C9_TimeoutValidation ==
    PastStep({"validate_timeout"}) =>
        LET t == Unwrap(raw).timeout_secs IN
        /\ t = 0 => (pc = "expect" /\ IsConfigErr(result) /\ result = Some(Err(E_TIMEOUT)))
        /\ t >= 1 => /\ loc.timeout_secs = Some(t)
                     /\ result # Some(Err(E_TIMEOUT))
                     /\ (IsSome(result) /\ Unwrap(result).ok) => config.timeout_secs = t

C9_Witness ==
    /\ pc = "expect"
    /\ IsSome(raw) /\ Unwrap(raw).timeout_secs = 0
    /\ result = Some(Err(E_TIMEOUT))

\* C10: resolution fails for every check_interval_secs outside [1, 86399]
\* (0 and 86400 included); for every value inside, 1 and 86399 included, the
\* interval step succeeds and yields the value unchanged.
C10_IntervalValidation ==
    LET InRange(i) == 1 <= i /\ i <= 86399 IN
    /\ (IsSome(raw) /\ pc = "expect" /\ ~InRange(Unwrap(raw).check_interval_secs)) =>
          IsConfigErr(result)
    /\ PastStep({"validate_timeout", "validate_check_interval"}) =>
          LET i == Unwrap(raw).check_interval_secs IN
          IF IsSome(loc.timeout_secs)
          THEN /\ ~InRange(i) => (pc = "expect" /\ result = Some(Err(E_INTERVAL)))
               /\ InRange(i) => /\ loc.check_interval_secs = Some(i)
                                /\ result # Some(Err(E_INTERVAL))
                                /\ (IsSome(result) /\ Unwrap(result).ok) =>
                                       config.check_interval_secs = i
          ELSE loc.check_interval_secs = None

C10_Witness ==
    /\ pc = "expect"
    /\ IsSome(raw) /\ Unwrap(raw).check_interval_secs = 86400
    /\ result = Some(Err(E_INTERVAL))

----------------------------------------------------------------------------
(* Vocabulary of the resolution properties *)
\* the webhook step of try_from has been executed
WebhookStepDone ==
    /\ PastStep({"validate_timeout", "validate_check_interval", "validate_webhook_url"})
    /\ IsSome(loc.check_interval_secs)

\* the discord-id step of try_from has been executed
DiscordStepDone ==
    /\ WebhookStepDone
    /\ pc # "validate_discord_id"
    /\ (pc = "expect" => \/ Unwrap(result).ok
                         \/ Unwrap(result).val.msg[1] = "Invalid URL: ")

IsWebhookErr(r) ==
    /\ IsConfigErr(r)
    /\ Unwrap(r).val.msg[1] \in {E_WEBHOOK_FORMAT.msg[1], E_WEBHOOK_DISCORD.msg[1],
                                  E_WEBHOOK_PARTS.msg[1], "Invalid webhook ID '"}

\* the value the webhook step selects: the environment's if there is one
SelectedWebhook ==
    IF env.WEBHOOK_URL # None THEN env.WEBHOOK_URL ELSE Unwrap(raw).webhook_url

\* https://discord.com/api/webhooks/<digits>/<token>..., read off the text
WellFormedWebhook(s) ==
    /\ Len(s) >= 10
    /\ s[1] = "https://"
    /\ s[2] = "discord.com"
    /\ SubSeq(s, 3, 7) = <<"/", "api", "/", "webhooks", "/">>
    /\ s[8] \in {"123", "456", "42"}
    /\ s[9] = "/"
    /\ s[10] # "/"

AbsentOrBlank(o) == o = None \/ \A k \in 1..Len(o[1]) : o[1][k] = " "

\* C11: a selected, non-blank webhook URL is accepted only if it is an
\* absolute https URL on discord.com under /api/webhooks/ with a non-empty
\* numeric id and a non-empty token; any other one fails the resolution with
\* a webhook error; an accepted one is stored exactly as supplied.
C11_WebhookAcceptance ==
    (WebhookStepDone /\ ~AbsentOrBlank(SelectedWebhook)) =>
        IF WellFormedWebhook(Unwrap(SelectedWebhook))
        THEN /\ loc.webhook_url = SelectedWebhook
             /\ ~IsWebhookErr(result)
             /\ (IsSome(result) /\ Unwrap(result).ok) => config.webhook_url = SelectedWebhook
        ELSE /\ pc = "expect"
             /\ IsWebhookErr(result)
             /\ loc.webhook_url = None

C11_Witness ==
    /\ pc = "expect"
    /\ IsSome(result) /\ Unwrap(result).ok
    /\ env.WEBHOOK_URL = None
    /\ config.webhook_url = Some(HOOK_OK)

\* C12: when the environment and the file both supply webhook_url, and the
\* environment value is not blank, the resolved webhook is the environment
\* value; when both supply discord_id and the environment value is numeric,
\* the resolved id is the environment value.
C12_EnvOverridesFile ==
    /\ (/\ WebhookStepDone
        /\ ~AbsentOrBlank(env.WEBHOOK_URL)
        /\ Unwrap(raw).webhook_url # None
        /\ ~IsWebhookErr(result)) => loc.webhook_url = env.WEBHOOK_URL
    /\ (/\ WebhookStepDone
        /\ ~AbsentOrBlank(env.WEBHOOK_URL)
        /\ ~WellFormedWebhook(Unwrap(env.WEBHOOK_URL))) => IsWebhookErr(result)
    /\ (/\ DiscordStepDone
        /\ env.DISCORD_ID = Some(<<"456">>)
        /\ Unwrap(raw).discord_id # None) =>
            /\ loc.discord_id = Some(456)
            /\ (IsSome(result) /\ Unwrap(result).ok) => config.discord_id = Some(456)
    /\ (IsSome(result) /\ Unwrap(result).ok /\ ~AbsentOrBlank(env.WEBHOOK_URL)) =>
            config.webhook_url = env.WEBHOOK_URL

C12_Witness ==
    /\ pc = "expect"
    /\ IsSome(result) /\ Unwrap(result).ok
    /\ env.WEBHOOK_URL = Some(HOOK_ENV) /\ file.webhook_url = Some(HOOK_OK)
    /\ config.webhook_url = Some(HOOK_ENV)
    /\ env.DISCORD_ID = Some(<<"456">>) /\ file.discord_id = Some(42)
    /\ config.discord_id = Some(456)

\* C13: when the environment value of webhook_url or discord_id is absent or
\* blank, the resolved field is the value of the file: a blank WEBHOOK_URL
\* does not hide a valid webhook_url of the file, a blank DISCORD_ID does not
\* hide the file's discord_id.
C13_BlankEnvFallsBackToFile ==
    /\ (/\ WebhookStepDone
        /\ AbsentOrBlank(env.WEBHOOK_URL)
        /\ Unwrap(raw).webhook_url # None
        /\ WellFormedWebhook(Unwrap(Unwrap(raw).webhook_url))) =>
            loc.webhook_url = Unwrap(raw).webhook_url
    /\ (/\ DiscordStepDone
        /\ AbsentOrBlank(env.DISCORD_ID)) => loc.discord_id = Unwrap(raw).discord_id

\* an absolute URL, read off the text
AbsoluteUrl(s) == Len(s) >= 2 /\ s[1] \in {"https://", "http://"}
InvalidAt(q) == {k \in 1..Len(q) : ~AbsoluteUrl(q[k])}
Resolved == pc = "expect" /\ IsSome(raw)
FileUrls == IF file.urls = None THEN <<>> ELSE file.urls[1]

\* C14: resolution is all-or-nothing: a Config is returned exactly when the
\* timeout, interval, webhook and site-list validations all pass, nothing is
\* returned before the last step, and a returned Config has timeout > 0,
\* 1 <= interval < 86400, a well-formed or absent webhook and parseable URLs.
C14_AllOrNothing ==
    /\ (pc \in {"validate_timeout", "validate_check_interval", "validate_webhook_url",
                "validate_discord_id", "validate_urls"}) => result = None
    /\ Resolved =>
        LET r == Unwrap(raw)
            allPass == /\ r.timeout_secs > 0
                       /\ 1 <= r.check_interval_secs /\ r.check_interval_secs < 86400
                       /\ \/ AbsentOrBlank(SelectedWebhook)
                          \/ WellFormedWebhook(Unwrap(SelectedWebhook))
                       /\ InvalidAt(r.urls) = {}
        IN  /\ Unwrap(result).ok <=> allPass
            /\ ~Unwrap(result).ok => IsConfigErr(result)
            /\ Unwrap(result).ok =>
                  /\ DOMAIN config = {"timeout_secs", "check_interval_secs",
                                      "webhook_url", "discord_id", "urls"}
                  /\ config.timeout_secs > 0
                  /\ 1 <= config.check_interval_secs /\ config.check_interval_secs < 86400
                  /\ \/ config.webhook_url = None
                     \/ WellFormedWebhook(Unwrap(config.webhook_url))
                  /\ InvalidAt(config.urls) = {}

C14_Witness ==
    /\ Resolved
    /\ ~Unwrap(result).ok
    /\ IsSome(loc.timeout_secs) /\ IsSome(loc.check_interval_secs)
    /\ IsSome(loc.webhook_url) /\ IsSome(loc.discord_id)
    /\ Unwrap(result).val.msg[1] = "Invalid URL: "

\* C15: the site-list validation rejects the configuration iff some
\* monitored URL is not an absolute URL, and the error names the first such
\* entry of the list; an empty list is accepted.
C15_FirstInvalidUrl ==
    (Resolved /\ DiscordStepDone) =>
        LET q == Unwrap(raw).urls
            bad == InvalidAt(q)
        IN  IF bad = {}
            THEN Unwrap(result).ok
            ELSE LET first == CHOOSE k \in bad : \A m \in bad : k <= m
                 IN result = Some(Err([kind |-> "Config",
                                       msg |-> <<"Invalid URL: ">> \o q[first]]))

C15_Witness ==
    /\ Resolved
    /\ Unwrap(raw).urls = <<BAD2_URL, BAD_URL>>
    /\ result = Some(Err(E_URL(BAD2_URL)))

\* C16: on success the monitored URLs of the Config are the list of the
\* file: same length, same entries, same order, duplicates kept.
C16_UrlsPreserved ==
    (Resolved /\ Unwrap(result).ok) =>
        /\ Len(config.urls) = Len(FileUrls)
        /\ \A k \in 1..Len(FileUrls) : config.urls[k] = FileUrls[k]

C16_Witness ==
    /\ Resolved
    /\ Unwrap(result).ok
    /\ file.urls = Some(<<A_URL, A_URL>>)
    /\ config.urls = <<A_URL, A_URL>>

\* C17: an omitted timeout_secs resolves to 30 and an omitted
\* check_interval_secs to 300, and neither default is rejected; a webhook_url
\* or discord_id that neither the file nor the environment supplies is
\* absent in the Config, and the resolution still succeeds.
C17_Defaults ==
    /\ (IsSome(raw) /\ file.timeout_secs = None) =>
          /\ Unwrap(raw).timeout_secs = 30
          /\ result # Some(Err(E_TIMEOUT))
    /\ (IsSome(raw) /\ file.check_interval_secs = None) =>
          /\ Unwrap(raw).check_interval_secs = 300
          /\ result # Some(Err(E_INTERVAL))
    /\ (Resolved /\ Unwrap(result).ok) =>
          /\ file.timeout_secs = None => config.timeout_secs = 30
          /\ file.check_interval_secs = None => config.check_interval_secs = 300
          /\ (file.webhook_url = None /\ env.WEBHOOK_URL = None) => config.webhook_url = None
          /\ (file.discord_id = None /\ env.DISCORD_ID = None) => config.discord_id = None
    /\ (/\ Resolved
        /\ file.timeout_secs = None /\ file.check_interval_secs = None
        /\ file.webhook_url = None /\ env.WEBHOOK_URL = None
        /\ InvalidAt(FileUrls) = {}) => Unwrap(result).ok

C17_Witness ==
    /\ Resolved
    /\ Unwrap(result).ok
    /\ file.timeout_secs = None /\ file.check_interval_secs = None
    /\ file.webhook_url = None /\ file.discord_id = None
    /\ env.WEBHOOK_URL = None /\ env.DISCORD_ID = None
    /\ config.timeout_secs = 30 /\ config.check_interval_secs = 300
    /\ config.webhook_url = None /\ config.discord_id = None

----------------------------------------------------------------------------
IsPost(e) == e.op = "post"
Downs == SelectSeq(log, IsDown)
PostsSent == SelectSeq(log, IsPost)

\* C19: the notifier returns an error for a transport failure and for a
\* non-success answer of the webhook, and success only for a success status.
C19_NotifierReportsFailures ==
    pc \in LoopPcs =>
        \A j \in 1..Len(log) :
            /\ log[j].op = "posted" => log[j].data = <<"2xx">>
            /\ log[j].op = "post_err" => log[j].data # <<"2xx">>

\* C20: which notifications are attempted does not depend on discord_id:
\* with a webhook, the entries notified are the entries found DOWN, in the
\* same order, whether a discord id is configured or not; only the text
\* differs, which begins with the mention "<@id> " iff the id is configured.
C20_MentionOnlyChangesText ==
    pc \in LoopPcs =>
        /\ IF config.webhook_url # None
           THEN /\ Len(PostsSent) = Len(Downs)
                /\ \A k \in 1..Len(Downs) : PostsSent[k].i = Downs[k].i
           ELSE PostsSent = <<>>
        /\ \A k \in 1..Len(PostsSent) :
              LET text == PostsSent[k].data
                  alert == <<"Alert: ">> \o urls[PostsSent[k].i] \o <<" is DOWN!">>
              IN  IF config.discord_id = None
                  THEN text = alert
                  ELSE /\ config.discord_id = <<42>>
                       /\ text = <<"<@", "42", "> ">> \o alert

C20_Witness ==
    /\ pc = "sleeping"
    /\ config.discord_id = None
    /\ Len(PostsSent) = 2
    /\ PostsSent[1].data[1] = "Alert: "

----------------------------------------------------------------------------
LoadFailed == IsSome(result) /\ ~Unwrap(result).ok

\* C21: when the configuration fails to resolve at startup the worker
\* panics before the loop: no check, no notification, no cycle, ever; and
\* the worker comes to an end only there or, after a cancellation, in
\* Stopped.
C21_LoadFailureNeverChecks ==
    /\ [](LoadFailed =>
            /\ pc \in {"expect", "panicked"}
            /\ log = <<>> /\ outstanding = 0 /\ ~cycleBegun /\ exitBy = "none")
    /\ [](pc = "panicked" => LoadFailed)
    /\ [](pc \in LoopPcs => (IsSome(result) /\ Unwrap(result).ok))
    /\ []((~ENABLED Worker) =>
            \/ pc = "panicked"
            \/ pc = "stopped" /\ token
            \/ pc = "sleeping" /\ ~timer /\ ~token)
    /\ [][pc = "panicked" => UNCHANGED <<cfgVars, runVars>>]_vars

C21_Witness ==
    /\ pc = "panicked"
    /\ result = Some(Err(E_TIMEOUT))
    /\ token
    /\ log = <<>> /\ ~cycleBegun

----------------------------------------------------------------------------
HOOK_EXTRA == Hook("123", <<"/", "token", "/", "extra">>)

\* C22 as stated: an accepted webhook URL has exactly two non-empty path
\* segments after /api/webhooks/; one with further segments after the token
\* is rejected.
C22_ExactlyTwoSegments ==
    WebhookStepDone =>
        /\ loc.webhook_url # None =>
              LET u == loc.webhook_url[1] IN
              Len(u) = 10 /\ u[8] # "/" /\ u[9] = "/" /\ u[10] # "/"
        /\ SelectedWebhook = Some(HOOK_EXTRA) => IsWebhookErr(result)

\* C22, amended: an accepted webhook URL has at least two path segments
\* after /api/webhooks/, the first two non-empty (a numeric id and a token);
\* further segments after the token are accepted:
\* /api/webhooks/123/token/extra resolves and is stored as supplied.
C22_AtLeastTwoSegments ==
    WebhookStepDone =>
        /\ loc.webhook_url # None =>
              LET u == loc.webhook_url[1] IN
              /\ Len(u) >= 10
              /\ u[8] \in {"123", "456", "42"} /\ u[9] = "/" /\ u[10] # "/"
        /\ SelectedWebhook = Some(HOOK_EXTRA) =>
              /\ ~IsWebhookErr(result)
              /\ loc.webhook_url = Some(HOOK_EXTRA)

C22_Witness ==
    /\ Resolved
    /\ Unwrap(result).ok
    /\ config.webhook_url = Some(HOOK_EXTRA)

----------------------------------------------------------------------------
NonNumeric(o) == o # None /\ ~(Len(o[1]) = 1 /\ o[1][1] \in {"123", "456", "42"})

\* C23: an environment DISCORD_ID that is not an unsigned integer never
\* fails the resolution: the discord-id step always goes on to the site
\* list, and the resolved id is the file's, or absent when the file has none.
C23_BadEnvDiscordIdIgnored ==
    /\ []((DiscordStepDone /\ NonNumeric(env.DISCORD_ID)) =>
            /\ loc.discord_id = Unwrap(raw).discord_id
            /\ loc.discord_id = file.discord_id
            /\ (Resolved /\ Unwrap(result).ok) => config.discord_id = file.discord_id)
    /\ [][pc = "validate_discord_id" => (pc' = "validate_urls" /\ result' = None)]_vars

C23_Witness ==
    /\ Resolved
    /\ Unwrap(result).ok
    /\ env.DISCORD_ID = Some(<<"abc">>)
    /\ file.discord_id = Some(42)
    /\ config.discord_id = Some(42)

----------------------------------------------------------------------------
\* The class an error value shows to its reader: Error::Config carries only
\* a message, so the class is read off the message text.
ErrClass(e) ==
    IF e.kind # "Config" THEN "io"
    ELSE IF e.msg[1] = "timeout_secs must be > 0" THEN "timeout"
    ELSE IF e.msg[1] = "check_interval_secs must be > 0 and < 86400" THEN "interval"
    ELSE IF e.msg[1] \in
              {"Invalid webhook URL format",
               "Webhook URL must be a valid Discord webhook starting with https://discord.com/api/webhooks/",
               "Webhook URL must contain both webhook ID and token",
               "Invalid webhook ID '"} THEN "webhook"
    ELSE IF e.msg[1] = "Invalid URL: " THEN "url"
    ELSE "unknown"

StepClass(p) ==
    CASE p = "load" -> "io"
      [] p = "validate_timeout" -> "timeout"
      [] p = "validate_check_interval" -> "interval"
      [] p = "validate_webhook_url" -> "webhook"
      [] p = "validate_urls" -> "url"
      [] OTHER -> "none"

\* C24: the error value of a failed resolution tells which validation
\* failed: the class read off the returned value is the class of the step
\* that returned it, so failures of two different classes (timeout,
\* interval, webhook URL, monitored URL) never return equal values.
C24_ClassesDistinguishable ==
    /\ [][(result = None /\ IsSome(result') /\ ~Unwrap(result').ok) =>
            ErrClass(Unwrap(result').val) = StepClass(pc)]_vars
    /\ [](IsConfigErr(result) =>
            ErrClass(Unwrap(result).val) \in {"timeout", "interval", "webhook", "url"})

C24_Witness ==
    /\ pc = "expect"
    /\ IsConfigErr(result)
    /\ ErrClass(Unwrap(result).val) = "interval"
    /\ Unwrap(raw).check_interval_secs = 0
    /\ InvalidAt(file.urls) # {}
    /\ SelectedWebhook = Some(BAD_URL)

----------------------------------------------------------------------------
\* C25: the check answers true exactly for a 2xx response: every completed
\* probe is logged UP iff its response was 2xx, and DOWN for a non-2xx
\* response and for a transport failure alike.  A transport failure is not an
\* error: it is treated as any other DOWN (alerted when a webhook is
\* configured), and the worker goes on to the next site or to the sleep.
C25_CheckIsBoolean ==
    /\ [](\A j \in 1..Len(log) :
            log[j].op = "got" =>
              /\ log[j].data[2] \in {"UP", "DOWN"}
              /\ log[j].data[2] = "UP" <=> log[j].data[1] = "2xx"
              /\ j > 1 /\ log[j - 1].op = "get" /\ log[j - 1].i = log[j].i
              /\ (log[j].data[1] = "transport_err" /\ j < Len(log)) =>
                    IF IsSome(config.webhook_url)
                    THEN log[j + 1].op = "post" /\ log[j + 1].i = log[j].i
                    ELSE log[j + 1].op \in {"get", "build_err"}
                         /\ log[j + 1].i = log[j].i + 1)
    /\ [][pc = "check_wait" =>
            pc' \in {"check_wait", "check", "notify_wait", "sleeping"}]_vars

C25_Witness ==
    \E j, k \in 1..Len(log) :
        /\ j < k
        /\ log[j].op = "got"
        /\ log[j].data = <<"transport_err", "DOWN">>
        /\ log[k].op = "got"
        /\ log[k].data = <<"2xx", "UP">>
        /\ log[k].i = log[j].i + 1

----------------------------------------------------------------------------
\* C26: once the worker runs, no step of the worker, of the timer or of the
\* cancellation source changes the resolved Config (urls, timeout, interval,
\* webhook, discord id) or the inputs it was resolved from; every probe of
\* every cycle is addressed to the url at its index of the resolved list; and
\* the cancellation flag, once set, stays set.
C26_ConfigReadOnlyTokenWriteOnce ==
    /\ [][(pc \in LoopPcs) => UNCHANGED cfgVars]_vars
    /\ [][token => token']_vars
    /\ [](pc \in LoopPcs =>
            /\ config.urls = Unwrap(raw).urls
            /\ config.timeout_secs = Unwrap(raw).timeout_secs
            /\ config.check_interval_secs = Unwrap(raw).check_interval_secs
            /\ \A j \in 1..Len(log) :
                  log[j].op \in {"get", "got", "build_err"} =>
                      log[j].target = config.urls[log[j].i])

C26_Witness ==
    /\ pc = "loop_top"
    /\ cycleBegun
    /\ token
    /\ cancelAt.pc = "notify_wait"
    /\ Len(log) > 0
    /\ config.urls = Unwrap(file.urls)
    /\ Len(config.urls) = MaxUrls
    /\ config.webhook_url = Some(HOOK_OK)

----------------------------------------------------------------------------
\* C27: try_from runs its steps in the order timeout, check interval,
\* webhook URL, discord id, monitored URLs, and returns at the first failure:
\* with several invalid fields the reported error is that of the earliest
\* failing step, whatever the later fields and the environment hold, and the
\* steps after it have left no value behind.
C27_FirstFailingStepReported ==
    /\ [](Resolved =>
            LET r == Unwrap(raw)
                tBad == r.timeout_secs = 0
                iBad == ~(1 <= r.check_interval_secs /\ r.check_interval_secs < 86400)
                wBad == /\ ~AbsentOrBlank(SelectedWebhook)
                        /\ ~WellFormedWebhook(Unwrap(SelectedWebhook))
                uBad == InvalidAt(r.urls) # {}
                first == IF tBad THEN "timeout"
                         ELSE IF iBad THEN "interval"
                         ELSE IF wBad THEN "webhook"
                         ELSE IF uBad THEN "url"
                         ELSE "none"
            IN  /\ first = "none" <=> Unwrap(result).ok
                /\ first # "none" => ErrClass(Unwrap(result).val) = first
                /\ first = "timeout" => loc = NoLoc
                /\ first = "interval" =>
                      /\ IsSome(loc.timeout_secs)
                      /\ loc.check_interval_secs = None
                      /\ loc.webhook_url = None /\ loc.discord_id = None
                /\ first = "webhook" =>
                      /\ IsSome(loc.timeout_secs) /\ IsSome(loc.check_interval_secs)
                      /\ loc.webhook_url = None /\ loc.discord_id = None
                /\ first = "url" =>
                      /\ IsSome(loc.timeout_secs) /\ IsSome(loc.check_interval_secs)
                      /\ loc.webhook_url = (IF AbsentOrBlank(SelectedWebhook)
                                            THEN None ELSE SelectedWebhook))
    /\ [][/\ pc = "validate_timeout" => pc' \in {"validate_check_interval", "expect"}
          /\ pc = "validate_check_interval" => pc' \in {"validate_webhook_url", "expect"}
          /\ pc = "validate_webhook_url" => pc' \in {"validate_discord_id", "expect"}
          /\ pc = "validate_discord_id" => pc' = "validate_urls"
          /\ pc = "validate_urls" => pc' = "expect"]_vars

C27_Witness ==
    /\ Resolved
    /\ result = Some(Err(E_TIMEOUT))
    /\ Unwrap(raw).check_interval_secs = 0
    /\ env.WEBHOOK_URL = Some(BAD_URL)
    /\ InvalidAt(Unwrap(raw).urls) # {}
    /\ loc = NoLoc

====
